---- MODULE Spec2Model ----
(***************************************************************************)
(* A model of src/ui/markdown.tsx of obsidian-dataview: the hook           *)
(* useIndexBackedState (the subscribe / recompute / update cycle of a      *)
(* view) and the recursive literal renderer Lit.                           *)
(*                                                                         *)
(* Spec     the life of one view that uses useIndexBackedState: mount,     *)
(*          re-renders, the effect and its cleanup, index revisions,       *)
(*          refresh and node-inserted notifications, computes resolving,   *)
(*          unmount.                                                       *)
(* SpecLit  one render of a Lit tree over a heap of values that may hold   *)
(*          cycles: every step is one call of Lit. SpecLitFair adds that   *)
(*          the render does not stop while an element is left to render.   *)
(* SpecLitPair  a null and a string rendered side by side.                 *)
(* SpecMd   the life of one Markdown component: renders, the effect that   *)
(*          clears the container and delegates to the host's renderer,     *)
(*          delegations resolving, the loop that unwraps paragraphs,       *)
(*          unmount. SpecMdFair adds that a loop that was entered goes on. *)
(* SpecNoContext  Lit and Markdown rendered under no DataviewContext       *)
(*          provider.                                                      *)
(***************************************************************************)
EXTENDS Integers, Sequences, FiniteSets, TLC

\* ------------------------------------------------------------------ bounds
\* The index revision advances at most this many times.
MaxRev == 2
\* Notifications (refresh-views events and node-inserted callbacks) delivered.
MaxNotify == 2
\* Times the effect of the hook registers a pair of subscriptions.
MaxSubs == 2

\* Entries the lists and records of the value heap hold, taken together.
MaxElems == 3
\* settings.maxRecursiveRenderDepth ranges over 0..MaxDepth.
MaxDepth == 2

\* Nodes one delegated render of the host puts in the container.
MaxDomNodes == 3

\* The container elements: the view starts with container 1, and every
\* re-create of its container makes the next one.
Containers == 1..MaxSubs

\* The value useState(initial) starts from; a compute's result is its number.
initial == 0

VARIABLES
    \* ---- the host and the index
    phase,          \* "created" (before onload), "mounted", "unloaded"
    revision,       \* index.revision
    refreshEnabled, \* settings.refreshEnabled
    shown,          \* what container.isShown() answers
    \* ---- the hook's state (one slot per useState, the props, the effect)
    container,      \* the container the hook was last rendered with
    initialized,    \* useState(false)
    state,          \* useState(initial)
    lastReload,     \* useState(index.revision)
    pendingEffect,  \* <<>> or <<e>>: the effect a render scheduled, not yet run
    cleanup,        \* the run of the effect whose cleanup the hook holds, or 0
    \* ---- subscriptions
    subInfo,        \* subInfo[i]: the closure of the i-th run of the effect
    workLive,       \* runs whose "dataview:refresh-views" handler is registered
    nodeLive,       \* runs whose onNodeInserted handler is registered
    offrefCalls,    \* offrefCalls[i]: times offref(workEvent) ran for run i
    nodeEventCalls, \* nodeEventCalls[i]: times nodeEvent() ran for run i
    \* ---- computes
    triggered,      \* triggered[k]: the k-th call of compute()
    inflight,       \* the calls of compute() whose promise is pending
    lastResolved,   \* the call that resolved last, 0 when none has
    \* ---- history
    notified,       \* notifications delivered so far
    advancedHidden, \* the revision advanced while the container was hidden,
                    \* and no compute was triggered since
    lastOp,         \* <<kind, h, n, a>>: the kind of the last step ("refresh",
                    \* "node" or "other"), the handlers it called, the calls
                    \* of compute() it made, and advancedHidden before it
    \* ---- one render of a Lit tree
    heap,                    \* heap[n]: the list or record n (kind, elems)
    maxRecursiveRenderDepth, \* settings.maxRecursiveRenderDepth
    renderNullAs,            \* settings.renderNullAs
    root,                    \* the <Lit> element the render started from
    out,                     \* the rendered nodes in document order; a "Lit"
                             \* node is an element not rendered yet
    calls,                   \* calls of Lit made so far
    \* ---- the context
    established,    \* a DataviewContext.Provider is above the component
    \* ---- one Markdown component
    mdPhase,        \* "none" (not rendered yet), "mounted", "thrown" (its
                    \* render raised), "unmounted"
    mdDeps,         \* <<content, attached>>: the dependencies of the effect at
                    \* the last render: the content (and source path) and
                    \* whether container.current was set
    mdInline,       \* the inline prop
    mdEffect,       \* <<>> or <<c>>: the effect a render scheduled, not yet run
    dom,            \* the nodes below the container element, in document
                    \* order: <<[id, tag, level]>>
    delegations,    \* delegations[k]: the k-th call of renderMarkdown
    mdPc,           \* "idle", or "unwrap": a .then callback is in its loop
    unwrapFrom,     \* dom when the loop in progress (or the last one) started
    rendering       \* the nodes the host makes of the content (tag, level)

hookVars == <<phase, revision, refreshEnabled, shown, container, initialized,
              state, lastReload, pendingEffect, cleanup, subInfo, workLive, nodeLive,
              offrefCalls, nodeEventCalls, triggered, inflight, lastResolved,
              notified, advancedHidden, lastOp>>

litVars == <<heap, maxRecursiveRenderDepth, renderNullAs, root, out, calls>>

ctxVars == <<established>>

mdVars == <<mdPhase, mdDeps, mdInline, mdEffect, dom, delegations, mdPc,
            unwrapFrom, rendering>>

vars == <<hookVars, litVars, ctxVars, mdVars>>

\* ------------------------------------------------------- useIndexBackedState

\* One call of compute(): the revision it was started at and what started it
\* ("first": the first load, "refresh": a refresh-views event, "node": a
\* node-inserted callback).
ComputeCall(cause) == [rev |-> revision, cause |-> cause]

\* The triggered list and the pending set after n more calls of compute().
TriggeredAfter(n, cause) ==
    triggered \o [k \in 1..n |-> ComputeCall(cause)]

InflightAfter(n) ==
    inflight \cup ((Len(triggered) + 1)..(Len(triggered) + n))

\* A first-load test that forgets the initialized flag.
NeedsFirstLoad_Always == TRUE

\* if (!initialized): the hook's first-load test.
NeedsFirstLoad == ~initialized

\* The closure the effect of a render holds: the container and lastReload are
\* the bindings of that render; index.revision, container.isShown() and
\* settings.refreshEnabled are read when the handler runs.
EffectClosure(c, lr) == [cont |-> c, cap |-> lr]

\* Conditions of refreshOperation that each leave one test out.
RefreshGuard_NoRevision(s) == shown /\ refreshEnabled

RefreshGuard_NoEnabled(s) == s.cap # revision /\ shown

RefreshGuard_NoShown(s) == s.cap # revision /\ refreshEnabled

\* The condition of refreshOperation, for the closure s of one run of the effect.
RefreshGuard(s) == s.cap # revision /\ shown /\ refreshEnabled

\* The handlers among ids whose refreshOperation passes its condition, in the
\* order they were registered.
Firing(ids) ==
    SelectSeq([i \in 1..Len(subInfo) |-> i],
              LAMBDA i : i \in ids /\ RefreshGuard(subInfo[i]))

\* An event calls refreshOperation of every handler in ids: each one that
\* passes sets lastReload to index.revision and calls compute().
refreshOperation(ids, cause) ==
    LET n == Len(Firing(ids)) IN
    /\ lastReload' = IF n > 0 THEN revision ELSE lastReload
    /\ triggered' = TriggeredAfter(n, cause)
    /\ inflight' = InflightAfter(n)
    /\ advancedHidden' = IF n > 0 THEN FALSE ELSE advancedHidden

\* The subscriptions as one record, and what the cleanup of run i leaves of it:
\* app.workspace.offref(workEvent); nodeEvent().
Subscriptions ==
    [work |-> workLive, node |-> nodeLive,
     offref |-> offrefCalls, nodeEvent |-> nodeEventCalls]

\* A cleanup that forgets nodeEvent().
EffectCleanup_NoNodeEvent(i, st) ==
    [work |-> st.work \ {i},
     node |-> st.node,
     offref |-> [st.offref EXCEPT ![i] = @ + 1],
     nodeEvent |-> st.nodeEvent]

EffectCleanup(i, st) ==
    [work |-> st.work \ {i},
     node |-> st.node \ {i},
     offref |-> [st.offref EXCEPT ![i] = @ + 1],
     nodeEvent |-> [st.nodeEvent EXCEPT ![i] = @ + 1]]

\* The hook holds at most one cleanup; invoking it clears it.
InvokeCleanup(st) == IF cleanup = 0 THEN st ELSE EffectCleanup(cleanup, st)

\* An update that keeps the first result it was given.
updateState_FirstWins(k) == IF state = initial THEN k ELSE state

\* An update that keeps the result of the call triggered last.
updateState_NewestWins(k) == IF k > state THEN k ELSE state

\* The value of the state slot after .then(v => updateState(v)) of call k.
updateState(k) == k

\* The body of the hook, rendered with container c; first: the render that
\* creates the state slots.
Render(c, first) ==
    LET lr == IF first THEN revision ELSE lastReload IN
    /\ state' = IF first THEN initial ELSE state
    /\ lastReload' = lr
    /\ IF NeedsFirstLoad
          THEN /\ triggered' = TriggeredAfter(1, "first")
               /\ inflight' = InflightAfter(1)
               /\ advancedHidden' = FALSE
          ELSE UNCHANGED <<triggered, inflight, advancedHidden>>
    /\ initialized' = TRUE
    /\ pendingEffect' = IF first \/ c # container
                           THEN <<EffectClosure(c, lr)>>
                           ELSE pendingEffect
    /\ container' = c

\* ReactRenderer.onload: the tree is rendered for the first time.
onload ==
    /\ phase = "created"
    /\ phase' = "mounted"
    /\ Render(container, TRUE)
    /\ lastOp' = <<"other", 0, 0, FALSE>>
    /\ UNCHANGED <<revision, refreshEnabled, shown, cleanup, subInfo, workLive,
                   nodeLive, offrefCalls, nodeEventCalls, lastResolved, notified>>
    /\ UNCHANGED <<litVars, ctxVars, mdVars>>

\* A later render of the mounted tree (a state slot changed, or the parent
\* rendered again), with the same container or another one. A render first runs
\* the effects still pending, so none is pending here.
Rerender(c) ==
    /\ phase = "mounted"
    /\ pendingEffect = <<>>
    /\ c \in Containers
    /\ Render(c, FALSE)
    /\ lastOp' = <<"other", 0, 0, FALSE>>
    /\ UNCHANGED <<phase, revision, refreshEnabled, shown, cleanup, subInfo,
                   workLive, nodeLive, offrefCalls, nodeEventCalls, lastResolved,
                   notified>>
    /\ UNCHANGED <<litVars, ctxVars, mdVars>>

\* The pending effect runs: the cleanup of the run before it, then the two
\* subscriptions of this run.
RunEffect ==
    /\ phase = "mounted"
    /\ pendingEffect # <<>>
    /\ LET st == InvokeCleanup(Subscriptions)
           i == Len(subInfo) + 1
       IN /\ subInfo' = Append(subInfo, pendingEffect[1])
          /\ workLive' = st.work \cup {i}
          /\ nodeLive' = st.node \cup {i}
          /\ offrefCalls' = st.offref
          /\ nodeEventCalls' = st.nodeEvent
          /\ cleanup' = i
    /\ pendingEffect' = <<>>
    /\ lastOp' = <<"other", 0, 0, FALSE>>
    /\ UNCHANGED <<phase, revision, refreshEnabled, shown, container,
                   initialized, state, lastReload, triggered, inflight,
                   lastResolved, notified, advancedHidden>>
    /\ UNCHANGED <<litVars, ctxVars, mdVars>>

\* The index changes: its revision goes up by one.
AdvanceRevision ==
    /\ revision < MaxRev
    /\ revision' = revision + 1
    /\ advancedHidden' = (advancedHidden \/ ~shown)
    /\ lastOp' = <<"other", 0, 0, FALSE>>
    /\ UNCHANGED <<phase, refreshEnabled, shown, container, initialized, state,
                   lastReload, pendingEffect, cleanup, subInfo, workLive,
                   nodeLive, offrefCalls, nodeEventCalls, triggered, inflight,
                   lastResolved, notified>>
    /\ UNCHANGED <<litVars, ctxVars, mdVars>>

\* The container becomes shown or hidden.
ToggleShown ==
    /\ shown' = ~shown
    /\ lastOp' = <<"other", 0, 0, FALSE>>
    /\ UNCHANGED <<phase, revision, refreshEnabled, container, initialized,
                   state, lastReload, pendingEffect, cleanup, subInfo, workLive,
                   nodeLive, offrefCalls, nodeEventCalls, triggered, inflight,
                   lastResolved, notified, advancedHidden>>
    /\ UNCHANGED <<litVars, ctxVars, mdVars>>

\* The workspace fires "dataview:refresh-views": every registered handler runs.
RefreshViews ==
    /\ notified < MaxNotify
    /\ notified' = notified + 1
    /\ refreshOperation(workLive, "refresh")
    /\ lastOp' = <<"refresh", Cardinality(workLive),
                 Len(triggered') - Len(triggered), advancedHidden>>
    /\ UNCHANGED <<phase, revision, refreshEnabled, shown, container,
                   initialized, state, pendingEffect, cleanup, subInfo, workLive,
                   nodeLive, offrefCalls, nodeEventCalls, lastResolved>>
    /\ UNCHANGED <<litVars, ctxVars, mdVars>>

\* Container c reports a node inserted: the handlers registered on it run.
NodeInserted(c) ==
    /\ notified < MaxNotify
    /\ notified' = notified + 1
    /\ refreshOperation({i \in nodeLive : subInfo[i].cont = c}, "node")
    /\ lastOp' = <<"node", Cardinality({i \in nodeLive : subInfo[i].cont = c}),
                 Len(triggered') - Len(triggered), advancedHidden>>
    /\ UNCHANGED <<phase, revision, refreshEnabled, shown, container,
                   initialized, state, pendingEffect, cleanup, subInfo, workLive,
                   nodeLive, offrefCalls, nodeEventCalls, lastResolved>>
    /\ UNCHANGED <<litVars, ctxVars, mdVars>>

\* The promise of call k resolves: .then(v => updateState(v)).
Resolve(k) ==
    /\ k \in inflight
    /\ inflight' = inflight \ {k}
    /\ state' = updateState(k)
    /\ lastResolved' = k
    /\ lastOp' = <<"other", 0, 0, FALSE>>
    /\ UNCHANGED <<phase, revision, refreshEnabled, shown, container,
                   initialized, lastReload, pendingEffect, cleanup, subInfo,
                   workLive, nodeLive, offrefCalls, nodeEventCalls, triggered,
                   notified, advancedHidden>>
    /\ UNCHANGED <<litVars, ctxVars, mdVars>>

\* ReactRenderer.onunload: unmountComponentAtNode runs the cleanup the hook
\* holds and drops an effect that has not run yet.
onunload ==
    /\ phase \in {"created", "mounted"}
    /\ phase' = "unloaded"
    /\ LET st == InvokeCleanup(Subscriptions)
       IN /\ workLive' = st.work
          /\ nodeLive' = st.node
          /\ offrefCalls' = st.offref
          /\ nodeEventCalls' = st.nodeEvent
    /\ cleanup' = 0
    /\ pendingEffect' = <<>>
    /\ lastOp' = <<"other", 0, 0, FALSE>>
    /\ UNCHANGED <<revision, refreshEnabled, shown, container, initialized,
                   state, lastReload, subInfo, triggered, inflight, lastResolved,
                   notified, advancedHidden>>
    /\ UNCHANGED <<litVars, ctxVars, mdVars>>

\* The view as constructed, not loaded yet.
HookInit(enabled, isShown) ==
    /\ phase = "created"
    /\ revision = 0
    /\ refreshEnabled = enabled
    /\ shown = isShown
    /\ container = 1
    /\ initialized = FALSE
    /\ state = initial
    /\ lastReload = 0
    /\ pendingEffect = <<>>
    /\ cleanup = 0
    /\ subInfo = <<>>
    /\ workLive = {}
    /\ nodeLive = {}
    /\ offrefCalls = [i \in 1..MaxSubs |-> 0]
    /\ nodeEventCalls = [i \in 1..MaxSubs |-> 0]
    /\ triggered = <<>>
    /\ inflight = {}
    /\ lastResolved = 0
    /\ notified = 0
    /\ advancedHidden = FALSE
    /\ lastOp = <<"other", 0, 0, FALSE>>

\* No render of a Lit tree is going on.
LitIdle ==
    /\ heap = [n \in {} |-> 0]
    /\ maxRecursiveRenderDepth = 0
    /\ renderNullAs = ""
    /\ root = <<>>
    /\ out = <<>>
    /\ calls = 0

\* No Markdown component is rendered.
MdIdle ==
    /\ mdPhase = "none"
    /\ mdDeps = <<0, FALSE>>
    /\ mdInline = FALSE
    /\ mdEffect = <<>>
    /\ dom = <<>>
    /\ delegations = <<>>
    /\ mdPc = "idle"
    /\ unwrapFrom = <<>>
    /\ rendering = <<>>

Init ==
    /\ \E enabled \in BOOLEAN, isShown \in BOOLEAN : HookInit(enabled, isShown)
    /\ LitIdle
    /\ established = TRUE
    /\ MdIdle

Next ==
    \/ onload
    \/ \E c \in {container, container + 1} : Rerender(c)
    \/ RunEffect
    \/ AdvanceRevision
    \/ ToggleShown
    \/ RefreshViews
    \/ \E c \in 1..container : NodeInserted(c)
    \/ \E k \in inflight : Resolve(k)
    \/ onunload

Spec == Init /\ [][Next]_vars

\* ------------------------------------------------------------------- Lit

\* The lists and records of the value heap: two objects, which may hold
\* themselves and each other.
Nodes == {"a", "b"}

\* Values. A list or a record is a reference into the heap; the rest are leaves.
Ref(n) == [kind |-> "ref", id |-> n]

Null == [kind |-> "null"]

Undefined == [kind |-> "undefined"]

Str(x) == [kind |-> "string", str |-> x]

Num(x) == [kind |-> "number", num |-> x]

Bool(x) == [kind |-> "boolean", bool |-> x]

DateValue == [kind |-> "date", text |-> "2020-01-01"]

DurationValue == [kind |-> "duration", text |-> "1 day"]

LinkValue == [kind |-> "link", markdown |-> "[[note]]"]

HtmlValue == [kind |-> "html"]

FunctionValue == [kind |-> "function"]

\* Values of no variant: a symbol (JSON.stringify gives undefined) and a
\* bigint (JSON.stringify throws).
SymbolValue == [kind |-> "symbol"]

BigIntValue == [kind |-> "bigint"]

Leaves ==
    {Null, Undefined, Str("a"), Num(1), Bool(TRUE), Bool(FALSE), DateValue,
     DurationValue, LinkValue, HtmlValue, FunctionValue, SymbolValue,
     BigIntValue}

\* What a list or a record of the heap may hold.
ChildValues == {Num(1)} \cup {Ref(n) : n \in Nodes}

ContainerKinds == {"array", "object", "instance"}

EmptyHeap == [n \in Nodes |-> [kind |-> "array", elems |-> <<>>]]

\* The objects reached from those of from in at most k steps through h.
RECURSIVE Reachable(_, _, _)
Reachable(h, from, k) ==
    IF k = 0 THEN from
    ELSE Reachable(h, from \cup {v.id : v \in {x \in UNION {{h[n].elems[i] : i \in 1..Len(h[n].elems)} : n \in from} : x.kind = "ref"}}, k - 1)

KindOf(v) == IF v.kind = "ref" THEN heap[v.id].kind ELSE v.kind

\* The classification of Values and DataArray: one variant per value.
\* nullish: whether isNull also takes undefined.
isNull(v, nullish) == v.kind = "null" \/ (nullish /\ v.kind = "undefined")

isString(v) == v.kind = "string"

isNumber(v) == v.kind = "number"

isBoolean(v) == v.kind = "boolean"

isDate(v) == v.kind = "date"

isDuration(v) == v.kind = "duration"

isLink(v) == v.kind = "link"

isHtml(v) == v.kind = "html"

isFunction(v) == v.kind = "function"

isArray(v) == KindOf(v) = "array"

isObject(v) == KindOf(v) \in {"object", "instance"}

\* value?.constructor?.name
ConstructorName(v) == IF KindOf(v) = "instance" THEN "Foo" ELSE "Object"

\* Rendered nodes.
Txt(x) == [t |-> "text", s |-> x]

Open(tag) == [t |-> "open", tag |-> tag]

Close(tag) == [t |-> "close", tag |-> tag]

MarkdownElement(content, sourcePath) ==
    [t |-> "Markdown", content |-> content, sourcePath |-> sourcePath]

EmbedHtmlElement(element) == [t |-> "EmbedHtml", element |-> element]

LitElement(value, sourcePath, inline, depth) ==
    [t |-> "Lit", value |-> value, sourcePath |-> sourcePath,
     inline |-> inline, depth |-> depth]

\* Lit raised e instead of returning.
Thrown(e) == [t |-> "throw", error |-> e]

\* {x} in JSX: a string is rendered as text, undefined as nothing.
JsxText(x) == IF x = Undefined THEN <<>> ELSE <<Txt(x.str)>>

\* "" + value
NumberText(v) == ToString(v.num)

BooleanText(v) == IF v.bool THEN "true" ELSE "false"

\* f[1] \o ... \o f[n]
RECURSIVE Concat(_, _)
Concat(f, n) == IF n = 0 THEN <<>> ELSE Concat(f, n - 1) \o f[n]

\* value.map(...) over a list; Object.entries(value) of a record: the pairs
\* [key, value], as arrays.
Elems(v) == heap[v.id].elems

Entries(v) == [i \in 1..Len(Elems(v)) |-> <<Str(ToString(i)), Elems(v)[i]>>]

\* entry.key and entry.value of a pair of Object.entries: an array has neither
\* property.
EntryKey(entry) == Undefined

EntryValue(entry) == Undefined

\* ${index == 0 ? "" : ", "}
Separator(index) == <<Txt("$"), Txt(IF index = 0 THEN "" ELSE ", ")>>

\* A depth test that lets one level too many through.
BeyondMaxDepth_Strict(depth) == depth > maxRecursiveRenderDepth

\* depth >= context.settings.maxRecursiveRenderDepth
BeyondMaxDepth(depth) == depth >= maxRecursiveRenderDepth

\* A child depth that does not grow.
ChildDepth_Same(depth) == depth

\* depth={depth + 1}
ChildDepth(depth) == depth + 1

\* A test of the constructor that takes every record for a plain one.
HasClassName_Never(value) == FALSE

\* value?.constructor?.name && value?.constructor?.name != "Object"
HasClassName(value) == ConstructorName(value) # "Object"

\* A null rendered as a text of its own, whatever the settings say.
NullContent_Fixed == "-"

\* content={context.settings.renderNullAs}
NullContent == renderNullAs

\* A context created with a default value to fall back on.
ContextMissing_DefaultGiven == FALSE

\* createContext<DataviewContexts>(undefined!): with no provider above,
\* useContext(DataviewContext) is undefined, and reading a property of it
\* (.settings, .component) raises a TypeError.
ContextMissing == ~established

\* One call of Lit: the nodes it returns, child <Lit> elements not rendered yet.
Lit(value, sourcePath, inline, depth, nullish) ==
    LET child(v) == LitElement(v, sourcePath, inline, ChildDepth(depth)) IN
    IF ContextMissing THEN <<Thrown("TypeError")>>
    ELSE IF BeyondMaxDepth(depth) THEN <<Txt("...")>>
    ELSE IF isNull(value, nullish) THEN <<MarkdownElement(NullContent, sourcePath)>>
    ELSE IF isString(value) THEN <<MarkdownElement(value.str, sourcePath)>>
    ELSE IF isNumber(value) THEN <<Txt("$"), Txt(NumberText(value))>>
    ELSE IF isBoolean(value) THEN <<Txt("$"), Txt(BooleanText(value))>>
    ELSE IF isDate(value) THEN <<Txt("$"), Txt(value.text)>>
    ELSE IF isDuration(value) THEN <<Txt("$"), Txt(value.text)>>
    ELSE IF isLink(value) THEN <<MarkdownElement(value.markdown, sourcePath)>>
    ELSE IF isHtml(value) THEN <<EmbedHtmlElement(value)>>
    ELSE IF isFunction(value) THEN <<Txt("<function>")>>
    ELSE IF isArray(value) THEN
        LET n == Len(Elems(value)) IN
        IF inline
        THEN <<Open("ul")>>
             \o Concat([i \in 1..n |->
                          <<Open("li"), child(Elems(value)[i]), Close("li")>>], n)
             \o <<Close("ul")>>
        ELSE IF n = 0 THEN <<Txt("<Empty List>")>>
        ELSE <<Open("span")>>
             \o Concat([i \in 1..n |->
                          Separator(i - 1) \o <<child(Elems(value)[i])>>], n)
             \o <<Close("span")>>
    ELSE IF isObject(value) THEN
        LET e == Entries(value)
            n == Len(e)
        IN
        IF HasClassName(value)
        THEN <<Txt("<$"), Txt(ConstructorName(value)), Txt(">")>>
        ELSE IF inline
        THEN <<Open("ul")>>
             \o Concat([i \in 1..n |->
                          <<Open("li"), Txt("$")>> \o JsxText(EntryKey(e[i]))
                          \o <<Txt(":"), Txt(" "), child(EntryValue(e[i])),
                               Close("li")>>], n)
             \o <<Close("ul")>>
        ELSE IF n = 0 THEN <<Txt("<Empty Object>")>>
        ELSE <<Open("span")>>
             \o Concat([i \in 1..n |->
                          Separator(i - 1) \o <<Txt("$")>>
                          \o JsxText(EntryKey(e[i]))
                          \o <<Txt(":"), Txt(" "), child(EntryValue(e[i]))>>], n)
             \o <<Close("span")>>
    ELSE IF value.kind = "bigint" THEN <<Thrown("TypeError")>>
    ELSE <<Txt("<Unrecognized: $"), Txt(">")>>

\* The elements of out not rendered yet; the render takes the first.
Pending == {i \in 1..Len(out) : out[i].t = "Lit"}

FirstPending == CHOOSE i \in Pending : \A j \in Pending : i <= j

\* The render calls Lit for the first element not rendered yet and puts what
\* it returns in the element's place.
LitCall ==
    /\ Pending # {}
    /\ \E nullish \in BOOLEAN :
         LET p == FirstPending
             e == out[p]
         IN out' = SubSeq(out, 1, p - 1)
                   \o Lit(e.value, e.sourcePath, e.inline, e.depth, nullish)
                   \o SubSeq(out, p + 1, Len(out))
    /\ calls' = calls + 1
    /\ UNCHANGED <<heap, maxRecursiveRenderDepth, renderNullAs, root>>
    /\ UNCHANGED <<hookVars, ctxVars, mdVars>>

\* A <Lit> element of any value, inline flag and depth, under any settings; an
\* object of the heap the value does not reach is left empty.
LitInit ==
    /\ HookInit(FALSE, FALSE)
    /\ established = TRUE
    /\ MdIdle
    /\ maxRecursiveRenderDepth \in 0..MaxDepth
    /\ renderNullAs = "-"
    /\ \E v \in Leaves \cup {Ref("a")}, inline \in BOOLEAN, depth \in 0..(MaxDepth + 1) :
         root = LitElement(v, "note.md", inline, depth)
    /\ IF root.value.kind = "ref"
          THEN \E la \in 0..MaxElems : \E lb \in 0..(MaxElems - la) :
               \E ka \in ContainerKinds, kb \in ContainerKinds :
               \E ea \in [1..la -> ChildValues], eb \in [1..lb -> ChildValues] :
                 /\ heap = [n \in Nodes |->
                              IF n = "a" THEN [kind |-> ka, elems |-> ea]
                                         ELSE [kind |-> kb, elems |-> eb]]
                 /\ \A n \in Nodes \ Reachable(heap, {"a"}, MaxElems) :
                       heap[n] = EmptyHeap[n]
          ELSE heap = EmptyHeap
    /\ out = <<root>>
    /\ calls = 0

LitNext == LitCall

SpecLit == LitInit /\ [][LitNext]_vars

\* The render runs to its end: it renders every child element it is given
\* before it returns.
SpecLitFair == SpecLit /\ WF_vars(LitNext)

\* The texts settings.renderNullAs and a string value range over, and the
\* source paths.
Texts == {"-", "N/A", "a"}

SourcePaths == {"note.md", "other.md"}

\* Two <Lit> elements side by side, with the same source path, inline flag and
\* depth: one of the null value, one of the string settings.renderNullAs.
LitPairInit ==
    /\ HookInit(FALSE, FALSE)
    /\ established = TRUE
    /\ MdIdle
    /\ maxRecursiveRenderDepth \in 0..MaxDepth
    /\ renderNullAs \in Texts
    /\ heap = EmptyHeap
    /\ \E sourcePath \in SourcePaths, inline \in BOOLEAN, depth \in 0..(MaxDepth + 1) :
         /\ root = LitElement(Null, sourcePath, inline, depth)
         /\ out = <<root, LitElement(Str(renderNullAs), sourcePath, inline, depth)>>
    /\ calls = 0

SpecLitPair == LitPairInit /\ [][LitNext]_vars

\* -------------------------------------------------------------- Markdown

\* The content (with its source path) the component is rendered with: the
\* parent renders it with content 1 first and may change it to content 2.
Contents == {1, 2}

\* The nodes of a rendering: paragraphs and other nodes ("em": an element of
\* another tag; one with no children stands for a text node as well, which the
\* selector and replaceWith treat alike).
Tags == {"p", "em"}

\* The nodes below an element in document order, each with its level (1: a
\* child of the container): a node is a child of the nearest node before it
\* that is one level up.
WellFormed(f) ==
    /\ Len(f) > 0 => f[1].level = 1
    /\ \A i \in 1..(Len(f) - 1) : f[i + 1].level <= f[i].level + 1

Forests ==
    UNION {{f \in [1..n -> [tag : Tags, level : 1..MaxDomNodes]] : WellFormed(f)} :
             n \in 0..MaxDomNodes}

\* The nodes the k-th delegation makes: MarkdownRenderer.renderMarkdown builds
\* them of the content and puts them in the container it was given.
Rendered(k) ==
    [i \in 1..Len(rendering) |->
        [id |-> <<k, i>>, tag |-> rendering[i].tag, level |-> rendering[i].level]]

\* A selector that matches the container's own children only.
FirstParagraph_DirectChild(d) ==
    IF \E i \in 1..Len(d) : d[i].tag = "p" /\ d[i].level = 1
    THEN CHOOSE i \in 1..Len(d) :
            /\ d[i].tag = "p" /\ d[i].level = 1
            /\ \A j \in 1..(i - 1) : ~(d[j].tag = "p" /\ d[j].level = 1)
    ELSE 0

\* container.current.querySelector("p"): the first p below the container in
\* document order, at any level; 0 for null.
FirstParagraph(d) ==
    IF \E i \in 1..Len(d) : d[i].tag = "p"
    THEN CHOOSE i \in 1..Len(d) :
            d[i].tag = "p" /\ \A j \in 1..(i - 1) : d[j].tag # "p"
    ELSE 0

\* The last node of the subtree of node i.
SubtreeEnd(d, i) ==
    CHOOSE e \in i..Len(d) :
        /\ \A k \in (i + 1)..e : d[k].level > d[i].level
        /\ e = Len(d) \/ d[e + 1].level <= d[i].level

\* paragraph.replaceWith(...Array.from(paragraph.childNodes)): the children
\* take the place of the paragraph, each with its own subtree.
ReplaceWithChildren(d, i) ==
    LET e == SubtreeEnd(d, i) IN
    SubSeq(d, 1, i - 1)
    \o [k \in 1..(e - i) |-> [d[i + k] EXCEPT !.level = @ - 1]]
    \o SubSeq(d, e + 1, Len(d))

\* The function component called with content c. It reads the context, then
\* schedules its effect when a dependency changed: the content (or source
\* path), or container.current, which is unset during the first render.
Markdown(c) ==
    /\ mdPhase \in {"none", "mounted"}
    /\ mdPc = "idle" /\ mdEffect = <<>>
    /\ c \in Contents /\ (mdPhase = "none" => c = 1)
    /\ c >= mdDeps[1] /\ c <= mdDeps[1] + 1
    /\ IF ContextMissing
          THEN /\ mdPhase' = "thrown"
               /\ UNCHANGED <<mdDeps, mdEffect>>
          ELSE LET deps == <<c, mdPhase = "mounted">> IN
               /\ mdPhase' = "mounted"
               /\ mdDeps' = deps
               /\ mdEffect' = IF mdPhase = "none" \/ deps # mdDeps
                                THEN <<c>> ELSE <<>>
    /\ UNCHANGED <<mdInline, dom, delegations, mdPc, unwrapFrom, rendering>>
    /\ UNCHANGED <<hookVars, litVars, ctxVars>>

\* The effect: container.current.innerHTML = ""; renderMarkdown(content,
\* container.current, sourcePath, component). The host builds the nodes in the
\* container before it returns (written) or by the time its promise resolves.
MdEffect ==
    /\ mdPhase = "mounted" /\ mdPc = "idle"
    /\ mdEffect # <<>>
    /\ \E written \in BOOLEAN :
         LET k == Len(delegations) + 1 IN
         /\ delegations' =
               Append(delegations,
                      [content |-> mdEffect[1],
                       written |-> written,
                       resolved |-> FALSE,
                       overlaps |-> \E j \in 1..Len(delegations) :
                                       /\ ~delegations[j].resolved
                                       /\ delegations[j].content # mdEffect[1]])
         /\ dom' = IF written THEN Rendered(k) ELSE <<>>
    /\ mdEffect' = <<>>
    /\ UNCHANGED <<mdPhase, mdDeps, mdInline, mdPc, unwrapFrom, rendering>>
    /\ UNCHANGED <<hookVars, litVars, ctxVars>>

\* The promise of delegation k resolves: the host's nodes are in the container,
\* and the .then callback runs: if (!container.current || !inline) return;
\* otherwise it enters the loop.
MdResolve(k) ==
    /\ mdPc = "idle"
    /\ k \in 1..Len(delegations) /\ ~delegations[k].resolved
    /\ LET d == IF delegations[k].written THEN dom ELSE dom \o Rendered(k) IN
       /\ dom' = d
       /\ delegations' = [delegations EXCEPT ![k].resolved = TRUE,
                                             ![k].written = TRUE]
       /\ IF mdPhase = "mounted" /\ mdInline
             THEN mdPc' = "unwrap" /\ unwrapFrom' = d
             ELSE UNCHANGED <<mdPc, unwrapFrom>>
    /\ UNCHANGED <<mdPhase, mdDeps, mdInline, mdEffect, rendering>>
    /\ UNCHANGED <<hookVars, litVars, ctxVars>>

\* One turn of the loop: the test of while (paragraph), and the body.
MdUnwrapStep ==
    /\ mdPc = "unwrap"
    /\ LET paragraph == FirstParagraph(dom) IN
       IF paragraph = 0
          THEN mdPc' = "idle" /\ UNCHANGED dom
          ELSE dom' = ReplaceWithChildren(dom, paragraph) /\ UNCHANGED mdPc
    /\ UNCHANGED <<mdPhase, mdDeps, mdInline, mdEffect, delegations, unwrapFrom,
                   rendering>>
    /\ UNCHANGED <<hookVars, litVars, ctxVars>>

\* The component is unmounted: container.current is unset, and an effect not
\* run yet is dropped.
MdUnmount ==
    /\ mdPhase = "mounted" /\ mdPc = "idle"
    /\ mdPhase' = "unmounted"
    /\ mdEffect' = <<>>
    /\ UNCHANGED <<mdDeps, mdInline, dom, delegations, mdPc, unwrapFrom, rendering>>
    /\ UNCHANGED <<hookVars, litVars, ctxVars>>

\* A Markdown component of any inline flag, over any rendering of the host.
MdInit ==
    /\ HookInit(FALSE, FALSE)
    /\ LitIdle
    /\ established = TRUE
    /\ mdPhase = "none"
    /\ mdDeps = <<0, FALSE>>
    /\ mdInline \in BOOLEAN
    /\ mdEffect = <<>>
    /\ dom = <<>>
    /\ delegations = <<>>
    /\ mdPc = "idle"
    /\ unwrapFrom = <<>>
    /\ rendering \in Forests

MdNext ==
    \/ \E c \in Contents : Markdown(c)
    \/ MdEffect
    \/ \E k \in 1..Len(delegations) : MdResolve(k)
    \/ MdUnwrapStep
    \/ MdUnmount

SpecMd == MdInit /\ [][MdNext]_vars

\* The .then callback runs to its end: a loop that was entered goes on.
SpecMdFair == SpecMd /\ WF_vars(MdUnwrapStep)

\* Lit and Markdown rendered with no provider above them.
NoContextInit ==
    /\ HookInit(FALSE, FALSE)
    /\ MdIdle
    /\ established = FALSE
    /\ maxRecursiveRenderDepth \in 0..MaxDepth
    /\ renderNullAs = "-"
    /\ heap = EmptyHeap
    /\ \E v \in Leaves \cup {Ref("a")}, inline \in BOOLEAN, depth \in 0..(MaxDepth + 1) :
         root = LitElement(v, "note.md", inline, depth)
    /\ out = <<root>>
    /\ calls = 0

NoContextNext ==
    \/ LitCall
    \/ \E c \in Contents : Markdown(c)

SpecNoContext == NoContextInit /\ [][NoContextNext]_vars

\* ------------------------------------------------- claims: the hook (Spec)

\* The calls of compute() a step made.
Fired == Len(triggered') - Len(triggered)

\* A step that delivered a refresh-views event / a node-inserted callback to
\* exactly one registered handler.
RefreshDelivered == lastOp'[1] = "refresh" /\ notified' = notified + 1 /\ lastOp'[2] = 1

NodeDelivered == lastOp'[1] = "node" /\ notified' = notified + 1 /\ lastOp'[2] = 1

\* The recomputes (not the first load) triggered so far at revision r.
RecomputesAt(r) ==
    {k \in 1..Len(triggered) : triggered[k].rev = r /\ triggered[k].cause # "first"}

FirstLoads == {k \in 1..Len(triggered) : triggered[k].cause = "first"}

\* C1 (as claimed): with refreshEnabled and the container shown, a refresh
\* notification that arrives at a revision for which a recompute was already
\* triggered triggers no second compute, so no revision ever has two
\* refresh-triggered recomputes.
C1_OneRecomputePerRevision ==
    [][(RefreshDelivered /\ shown /\ refreshEnabled /\ RecomputesAt(revision) # {})
          => Fired = 0]_vars

\* C2 (as claimed): once the view is torn down the current value never changes
\* again; a compute resolving after teardown is discarded.
C2_NoUpdateAfterTeardown ==
    [][phase = "unloaded" => state' = state]_vars

\* C3 (as claimed): every node-inserted notification that reaches the handler
\* (container shown, refreshEnabled) triggers exactly one recompute, whatever
\* the revision.
C3_NodeInsertedAlwaysRecomputes ==
    [][(NodeDelivered /\ shown /\ refreshEnabled) => Fired = 1]_vars

\* C3 (amended): a node-inserted notification that reaches the handler triggers
\* exactly one recompute when index.revision differs from the lastReload the
\* handler holds, the container is shown and refreshEnabled is true; otherwise,
\* in particular when the revision equals that lastReload, it triggers none.
C3_NodeInsertedRecomputesOnNewRevision ==
    [][NodeDelivered =>
          \A i \in nodeLive :
              Fired = IF subInfo[i].cap # revision /\ shown /\ refreshEnabled
                         THEN 1 ELSE 0]_vars

\* C3 witness: a node-inserted callback reached the handler while the container
\* was shown, refreshEnabled was true and the revision was the one the handler
\* holds, and no compute was triggered.
C3_Witness ==
    /\ lastOp[1] = "node" /\ lastOp[2] = 1 /\ lastOp[3] = 0
    /\ shown /\ refreshEnabled
    /\ \E i \in nodeLive : subInfo[i].cap = revision

\* C4: the current value is initial until a compute resolves; the first render
\* triggers exactly one first-load compute whatever the revision, shown and
\* refreshEnabled are, and no later render triggers another; when the first-load
\* compute resolves its result becomes the current value.
C4_FirstLoadOnce ==
    /\ [](lastResolved = 0 => state = initial)
    /\ [](phase = "mounted" => initialized)
    /\ [](Cardinality(FirstLoads) = IF initialized THEN 1 ELSE 0)
    /\ [](initialized => triggered[1].cause = "first")
    /\ [][(1 \in inflight /\ 1 \notin inflight') => state' = 1]_vars

\* C4 witness: the view rendered again with a new container, the first-load
\* compute is the only one, it resolved and its result is the current value.
C4_Witness ==
    /\ Len(subInfo) = 2 /\ pendingEffect = <<>>
    /\ Len(triggered) = 1 /\ lastResolved = 1 /\ state = 1

\* C5: every resolution is applied when it happens, so once no compute is in
\* flight the current value is the result of the compute that resolved last,
\* also when that one was triggered before another.
C5_LastResolvedWins ==
    /\ [][\A k \in inflight : k \notin inflight' => state' = k]_vars
    /\ []((inflight = {} /\ lastResolved # 0) => state = lastResolved)

\* C5 witness: two computes were in flight together, the one triggered first
\* resolved last and its result is the current value.
C5_Witness ==
    /\ inflight = {} /\ Len(triggered) >= 2
    /\ lastResolved = 1 /\ state = 1

\* C6: at most one pair of subscriptions is registered at any time, the pair of
\* an earlier container is released when the next pair is registered, no
\* subscription is released twice, teardown leaves every subscription released
\* exactly once and none registered, and no step after teardown triggers a
\* compute.
C6_SubscriptionsReleasedOnce ==
    /\ [](Cardinality(workLive) <= 1 /\ Cardinality(nodeLive) <= 1)
    /\ [](\A i \in 1..Len(subInfo) :
             /\ offrefCalls[i] = (IF i \in workLive THEN 0 ELSE 1)
             /\ nodeEventCalls[i] = (IF i \in nodeLive THEN 0 ELSE 1)
             /\ (i < Len(subInfo) => i \notin workLive \cup nodeLive))
    /\ [](phase = "unloaded" => workLive = {} /\ nodeLive = {})
    /\ [][phase = "unloaded" => triggered' = triggered]_vars

\* C6 witness: the container was replaced, the view was torn down, and a refresh
\* notification arrived afterwards at a new revision with the container shown
\* and refreshEnabled true.
C6_Witness ==
    /\ phase = "unloaded" /\ Len(subInfo) = 2
    /\ lastOp[1] = "refresh"
    /\ shown /\ refreshEnabled /\ revision # subInfo[2].cap

\* C7: with refreshEnabled false the first load is the only compute ever
\* triggered.
C7_NoRecomputeWhenDisabled ==
    ~refreshEnabled => \A k \in 1..Len(triggered) : triggered[k].cause = "first"

\* C7 witness: refreshEnabled is false, the revision advanced, the container is
\* shown, a notification reached the handler, and only the first load ran.
C7_Witness ==
    /\ ~refreshEnabled /\ shown
    /\ lastOp[1] \in {"refresh", "node"} /\ lastOp[2] = 1
    /\ \E i \in workLive : subInfo[i].cap # revision
    /\ Len(triggered) = 1

\* C8: a refresh notification delivered while the container is hidden triggers
\* no compute and leaves lastReload as it was; and when the revision advanced
\* while the container was hidden, a node-inserted notification that reaches the
\* handler with the container shown and refreshEnabled true triggers a compute.
C8_HiddenChangeIsCaughtUp ==
    /\ [][(lastOp'[1] = "refresh" /\ notified' = notified + 1 /\ ~shown)
             => (Fired = 0 /\ lastReload' = lastReload)]_vars
    /\ [][(NodeDelivered /\ shown /\ refreshEnabled /\ advancedHidden)
             => Fired = 1]_vars

\* C8 witness: the revision advanced while the container was hidden, and the
\* node-inserted notification that followed triggered a compute.
C8_Witness ==
    /\ lastOp = <<"node", 1, 1, TRUE>>
    /\ triggered[Len(triggered)].cause = "node"

\* -------------------------------------------- claims: Lit (SpecLit, SpecLitFair)

\* A step that is one call of Lit, on the element out[FirstPending].
IsLitCall == calls' = calls + 1

\* C9: a call of Lit at a depth >= settings.maxRecursiveRenderDepth returns the
\* placeholder "..." and no child element, whatever the value is; a top-level
\* call under maxRecursiveRenderDepth = 0 is one.
C9_DepthGuard ==
    [][(IsLitCall /\ out[FirstPending].depth >= maxRecursiveRenderDepth)
          => out' = [out EXCEPT ![FirstPending] = Txt("...")]]_vars

\* C9 witness: maxRecursiveRenderDepth is 0 and the top-level call, on a list
\* that holds itself, returned the placeholder alone.
C9_Witness ==
    /\ maxRecursiveRenderDepth = 0 /\ root.depth = 0 /\ ~root.inline
    /\ root.value = Ref("a")
    /\ heap["a"].kind = "array"
    /\ \E i \in 1..Len(heap["a"].elems) : heap["a"].elems[i] = Ref("a")
    /\ calls = 1 /\ out = <<Txt("...")>>

\* 1 + b + ... + b^n
RECURSIVE GeoSum(_, _)
GeoSum(b, n) == IF n = 0 THEN 1 ELSE 1 + b * GeoSum(b, n - 1)

\* C10: every child element a call of Lit returns is one level deeper than the
\* call, no child element is deeper than maxRecursiveRenderDepth, the calls of
\* one render are bounded, and the render ends with no element left to render,
\* also on lists and records that hold themselves.
C10_Terminates ==
    /\ [][IsLitCall =>
            \A i \in FirstPending..(FirstPending + Len(out') - Len(out)) :
                out'[i].t = "Lit" => out'[i].depth = out[FirstPending].depth + 1]_vars
    /\ [](\A i \in Pending : calls = 0 \/ out[i].depth <= maxRecursiveRenderDepth)
    /\ [](calls <= GeoSum(MaxElems, maxRecursiveRenderDepth))
    /\ <>(Pending = {})

\* C10 witness: a list that holds itself was rendered from depth 0 under
\* maxRecursiveRenderDepth = 2: the render ended after three calls or more.
C10_Witness ==
    /\ root.value = Ref("a") /\ root.depth = 0
    /\ heap["a"].kind = "array"
    /\ \E i \in 1..Len(heap["a"].elems) : heap["a"].elems[i] = Ref("a")
    /\ maxRecursiveRenderDepth = 2
    /\ Pending = {} /\ calls >= 3

\* The element a step that is a call of Lit renders, and the nodes the call
\* returned in its place.
Called == out[FirstPending]

Returned == SubSeq(out', FirstPending, FirstPending + Len(out') - Len(out))

\* The step is a call of Lit below the depth limit on a list ("array"), a plain
\* record ("object") or an object of a class ("instance").
CallOn(kind) ==
    /\ IsLitCall
    /\ Called.depth < maxRecursiveRenderDepth
    /\ Called.value.kind = "ref"
    /\ heap[Called.value.id].kind = kind

IsLitElement(x) == x.t = "Lit"

IsShownText(x) == x.t = "text" /\ x.s # ""

IsLitOrShownText(x) == IsLitElement(x) \/ IsShownText(x)

\* C11: a call of Lit below the depth limit on a plain record returns, for each
\* entry (k, v) in the order of the entries, the text of k before a ":" and a
\* child element whose value is v, one level deeper, inline or not.
C11_EntriesShowKeyAndValue ==
    [][CallOn("object") =>
         LET e == Entries(Called.value)
             children == SelectSeq(Returned, IsLitElement)
             texts == SelectSeq(Returned, IsShownText)
         IN /\ Len(children) = Len(e)
            /\ \A i \in 1..Len(e) :
                 /\ children[i].value = e[i][2]
                 /\ children[i].depth = Called.depth + 1
                 /\ \E j \in 1..(Len(texts) - 1) :
                       texts[j].s = e[i][1].str /\ texts[j + 1].s = ":"]_vars

\* C12: a call of Lit below the depth limit on a list, not inline, returns the
\* placeholder "<Empty List>" for an empty list, and for a list of n elements
\* n child elements, in the order of the list, one level deeper, with the text
\* ", " between two consecutive children and no other text.
C12_ListJoinedByCommaOnly ==
    [][(CallOn("array") /\ ~Called.inline) =>
         LET l == Elems(Called.value)
             n == Len(l)
             seen == SelectSeq(Returned, IsLitOrShownText)
         IN IF n = 0 THEN Returned = <<Txt("<Empty List>")>>
            ELSE /\ Len(seen) = 2 * n - 1
                 /\ \A i \in 1..n :
                      /\ IsLitElement(seen[2 * i - 1])
                      /\ seen[2 * i - 1].value = l[i]
                      /\ seen[2 * i - 1].depth = Called.depth + 1
                 /\ \A i \in 1..(n - 1) : seen[2 * i] = Txt(", ")]_vars

\* C13: a call of Lit below the depth limit on a record whose constructor has a
\* name other than "Object" returns the placeholder built from that name and
\* no child element, inline or not, whatever the record holds.
C13_ClassInstanceNotEntered ==
    [][CallOn("instance") =>
         /\ Returned = <<Txt("<$"), Txt(ConstructorName(Called.value)), Txt(">")>>
         /\ \A i \in 1..Len(Returned) : ~IsLitElement(Returned[i])]_vars

\* C13 witness: an object of a class that holds itself and a plain record that
\* is not empty was rendered at depth 0 below the limit: the one call returned
\* the placeholder and left nothing to render.
C13_Witness ==
    /\ root.value = Ref("a") /\ root.depth = 0 /\ maxRecursiveRenderDepth >= 1
    /\ heap["a"].kind = "instance"
    /\ \E i \in 1..Len(heap["a"].elems) : heap["a"].elems[i] = Ref("a")
    /\ \E i \in 1..Len(heap["a"].elems) : heap["a"].elems[i] = Ref("b")
    /\ heap["b"].kind = "object" /\ Len(heap["b"].elems) >= 1
    /\ calls = 1 /\ Pending = {}
    /\ out = <<Txt("<$"), Txt("Foo"), Txt(">")>>

\* C14: a call of Lit below the depth limit on a number or a boolean returns
\* the text of the value ("" + value) and nothing before or after it.
C14_ScalarTextOnly ==
    [][(IsLitCall /\ Called.depth < maxRecursiveRenderDepth
          /\ Called.value.kind \in {"number", "boolean"}) =>
         Returned = <<Txt(IF Called.value.kind = "number"
                            THEN ToString(Called.value.num)
                            ELSE IF Called.value.bool THEN "true" ELSE "false")>>]_vars

\* C15: no call of Lit raises: whatever the value, the depth and the inline
\* flag, every call returns nodes.
C15_LitNeverThrows == \A i \in 1..Len(out) : out[i].t # "throw"

\* C16 (SpecLitPair): rendered with the same source path, inline flag and
\* depth, the null value under settings.renderNullAs = s and the string s give
\* the same output, for every s.
C16_NullRendersAsString ==
    calls = 2 => (Len(out) = 2 /\ out[1] = out[2])

\* C16 witness: below the depth limit, under renderNullAs = "N/A", both
\* elements were rendered to the Markdown element of "N/A".
C16_Witness ==
    /\ calls = 2 /\ root.value = Null /\ renderNullAs = "N/A"
    /\ root.depth < maxRecursiveRenderDepth
    /\ out[1] = MarkdownElement("N/A", root.sourcePath)
    /\ out[2] = MarkdownElement("N/A", root.sourcePath)

\* ------------------------------- claims: Markdown (SpecMd, SpecMdFair)

\* The paragraphs among the nodes d.
PCount(d) == Cardinality({i \in 1..Len(d) : d[i].tag = "p"})

IsNotParagraph(x) == x.tag # "p"

\* The nodes of d that are not paragraphs, in document order.
NonParagraphs(d) ==
    LET np == SelectSeq(d, IsNotParagraph) IN
    [i \in 1..Len(np) |-> <<np[i].id, np[i].tag>>]

\* The node x of the container is as the host made it.
AsRendered(x) == x = Rendered(x.id[1])[x.id[2]]

\* C17 (SpecMdFair): with inline set, every turn of the loop that a resolved
\* delegation starts takes one paragraph away, the loop ends, and when it ends
\* no paragraph is left at any level below the container and the nodes that
\* are not paragraphs are those the loop started from, in the same document
\* order; with inline unset the loop is never entered and every node of the
\* container is as the host made it.
C17_UnwrapEndsAndKeepsOrder ==
    /\ [][(mdPc = "unwrap" /\ mdPc' = "unwrap")
            => PCount(dom') = PCount(dom) - 1]_vars
    /\ [][(mdPc = "unwrap" /\ mdPc' = "idle")
            => /\ PCount(dom') = 0
               /\ NonParagraphs(dom') = NonParagraphs(unwrapFrom)]_vars
    /\ [](~mdInline =>
            (mdPc = "idle" /\ \A i \in 1..Len(dom) : AsRendered(dom[i])))
    /\ (mdPc = "unwrap") ~> (mdPc = "idle")

\* C17 witness: the one delegation of an inline component resolved over a
\* rendering with a paragraph inside a paragraph and a node inside that one;
\* the loop ended with no paragraph left and the node kept.
C17_Witness ==
    /\ mdInline /\ mdPhase = "mounted" /\ mdPc = "idle"
    /\ Len(delegations) = 1 /\ delegations[1].resolved
    /\ Len(unwrapFrom) = 3
    /\ unwrapFrom[1].tag = "p" /\ unwrapFrom[2].tag = "p"
    /\ unwrapFrom[2].level = 2 /\ unwrapFrom[3].level = 3
    /\ unwrapFrom[3].tag # "p"
    /\ Len(dom) = 1 /\ dom[1].id = unwrapFrom[3].id /\ dom[1].level = 1

\* C20 (SpecMd): when the content changed while an earlier delegation was
\* pending, so that the container was cleared and a second delegation started,
\* then once every delegation has resolved a mounted component's container
\* holds the nodes of the latest delegation and no node of an earlier one,
\* with the paragraphs unwrapped when inline is set.
C20_OnlyLatestContentShown ==
    LET n == Len(delegations) IN
    (/\ n >= 2 /\ delegations[n].overlaps
     /\ \A k \in 1..n : delegations[k].resolved
     /\ mdPhase = "mounted" /\ mdPc = "idle" /\ mdEffect = <<>>)
    => /\ \A i \in 1..Len(dom) : dom[i].id[1] = n
       /\ NonParagraphs(dom) = NonParagraphs(Rendered(n))
       /\ mdInline => PCount(dom) = 0
       /\ ~mdInline => dom = Rendered(n)

\* ---------------------------------- claims: the hook at quiescence (Spec)

\* No compute is in flight, and the compute triggered last was started at the
\* revision the index has now.
Quiescent ==
    /\ inflight = {}
    /\ Len(triggered) >= 1
    /\ triggered[Len(triggered)].rev = revision

\* C19, as stated: at quiescence the current value is the result of the compute
\* triggered last, and not of one triggered before it.
C19_NewestComputeIsShown == Quiescent => state = Len(triggered)

\* C19, amended: at quiescence the current value is the result of the compute
\* that resolved last; it is the result of a compute started at the final
\* revision when the compute triggered last is the one that resolved last.
C19_FreshWhenNewestResolvedLast ==
    Quiescent =>
        /\ state = lastResolved
        /\ lastResolved = Len(triggered) => triggered[state].rev = revision

\* C19 witness: the first load and a refresh at a later revision were in
\* flight together; the refresh resolved first, the first load last, and at
\* quiescence the current value is the first load's.
C19_Witness ==
    /\ Quiescent /\ Len(triggered) = 2
    /\ triggered[1].cause = "first" /\ triggered[1].rev < revision
    /\ lastResolved = 1 /\ state = 1

\* -------------------------------------- claims: the context (SpecNoContext)

\* C18 (SpecNoContext): with no provider above it, a call of Lit raises and
\* returns no node, and a render of Markdown raises before it renders its
\* container: nothing is mounted, no effect is scheduled and nothing is
\* delegated to the host.
C18_NoProviderFailsFast ==
    /\ calls >= 1 => out = <<Thrown("TypeError")>>
    /\ mdPhase \in {"none", "thrown"}
    /\ mdEffect = <<>> /\ delegations = <<>> /\ dom = <<>>

\* C18 witness: under no provider Lit was called on a string below the depth
\* limit and Markdown was rendered: both raised.
C18_Witness ==
    /\ ~established
    /\ root.value = Str("a") /\ root.depth < maxRecursiveRenderDepth
    /\ calls = 1 /\ out = <<Thrown("TypeError")>>
    /\ mdPhase = "thrown"

====
